---- MODULE Spec2Model ----
(***************************************************************************)
(* A model of gitbrowse/git.py: GitFileHistory, the history of one file   *)
(* with a cursor (_index), a blame cache (_blame) and a line-mapping cache *)
(* (_line_mappings).  Python strings are sequences of one-character        *)
(* strings, so that split, startswith and the '/'-joined cache key are     *)
(* computed as the code computes them.  The external tools (git, diff)     *)
(* are the environment: every call of an operation draws their answers     *)
(* from a small set.                                                       *)
(***************************************************************************)
EXTENDS Integers, Sequences, FiniteSets, TLC

VARIABLES
    pc,             \* "new" before __init__, "ready" with an engine, "failed" when __init__ raised, "hung" inside a call that never returns
    commits,        \* self.commits
    _index,          \* self._index
    _blame,          \* self._blame: NoBlame (None) or Some(list of GitBlameLine)
    _line_mappings,  \* self._line_mappings: key string -> table
    files,          \* the repository: what `git show rev:path` gives for each revision (never changes)
    blame_index,    \* history: the value of _index when _blame was last assigned by blame()
    returned,       \* history: Some(the result blame() last returned) since the cursor last moved, else NoBlame
    computed,       \* history: <<start, finish>> -> the tables _build_line_mappings first returned for that pair
    trail,          \* history: the last positions of the cursor (at most three) and whether blame() returned there; kept only in behaviours that start with a trail
    threads,        \* two threads of a host application inside blame() and inside next() or prev(): where each is, and what it holds in its locals
    op              \* history: the last call, its return value or exception, and the external queries it issued

vars == <<pc, commits, _index, _blame, _line_mappings, files, blame_index, returned, computed, trail, threads, op>>

-----------------------------------------------------------------------------
(* Python values *)

NL == "\n"
TAB == "\t"
SP == " "
SLASH == "/"

\* Python's None where a line number is expected (forward[start_ln] = None).
None == -1

\* self._blame = None, and self._blame = lines.
NoBlame == <<>>
Some(x) == <<x>>

\* The truth value Python gives self._blame in `if self._blame:`:
\* None and the empty list are both false.
Truthy(b) == b # NoBlame /\ b[1] # <<>>

\* s.startswith(prefix)
StartsWith(s, prefix) ==
    Len(s) >= Len(prefix) /\ SubSeq(s, 1, Len(prefix)) = prefix

\* s.find(sep) + 1: the least position where sep occurs in s, 0 if none.
RECURSIVE FindFrom(_, _, _)
FindFrom(s, sep, i) ==
    IF i + Len(sep) - 1 > Len(s) THEN 0
    ELSE IF \A k \in 1..Len(sep) : s[i + k - 1] = sep[k] THEN i
    ELSE FindFrom(s, sep, i + 1)

Find(s, sep) == FindFrom(s, sep, 1)

\* s.split(sep, maxsplit); maxsplit = -1 is no limit.
RECURSIVE Split(_, _, _)
Split(s, sep, maxsplit) ==
    LET i == Find(s, sep)
    IN  IF maxsplit = 0 \/ i = 0
        THEN <<s>>
        ELSE <<SubSeq(s, 1, i - 1)>>
             \o Split(SubSeq(s, i + Len(sep), Len(s)), sep, maxsplit - 1)

\* The lines p.readline() returns one after the other, each with its "\n"
\* (the last one without, when the output does not end in "\n").
RECURSIVE ReadLines(_)
ReadLines(s) ==
    LET i == Find(s, <<NL>>)
    IN  IF s = <<>> THEN <<>>
        ELSE IF i = 0 THEN <<s>>
        ELSE <<SubSeq(s, 1, i)>> \o ReadLines(SubSeq(s, i + 1, Len(s)))

\* [x for x in seq if x]
RECURSIVE NonEmpty(_)
NonEmpty(seq) ==
    IF seq = <<>> THEN <<>>
    ELSE (IF Head(seq) = <<>> THEN <<>> ELSE <<Head(seq)>>) \o NonEmpty(Tail(seq))

RECURSIVE Concat(_)
Concat(seqs) == IF seqs = <<>> THEN <<>> ELSE Head(seqs) \o Concat(Tail(seqs))

-----------------------------------------------------------------------------
(* The record of a call *)

Call(name, args, ret, exc, queries) ==
    [name |-> name, args |-> args, ret |-> ret, exc |-> exc, queries |-> queries]

NoExc == "none"

Query(q, arg, answer) == [q |-> q, arg |-> arg, answer |-> answer]

\* The sub-sequence of the queries named q.
RECURSIVE QueriesNamed(_, _)
QueriesNamed(queries, q) ==
    IF queries = <<>> THEN <<>>
    ELSE (IF Head(queries).q = q THEN <<Head(queries)>> ELSE <<>>)
         \o QueriesNamed(Tail(queries), q)

-----------------------------------------------------------------------------
(* GitFileHistory.__init__ *)

\* GitCommit(sha, author, message)
GitCommit(parts) == [sha |-> parts[1], author |-> parts[2], message |-> parts[3]]

\* output = p.read().split('\n\n'); the chunks `c.split('\n', 2)` of the
\* non-empty ones.
CommitChunks(log) ==
    LET output == NonEmpty(Split(log, <<NL, NL>>, -1))
    IN  [i \in 1..Len(output) |-> Split(output[i], <<NL>>, 2)]

\* GitCommit(*parts) takes exactly three arguments; any other number
\* raises TypeError.
ChunksOk(chunks) == \A i \in 1..Len(chunks) : Len(chunks[i]) = 3

ParseLog(log) ==
    LET chunks == CommitChunks(log)
    IN  [i \in 1..Len(chunks) |-> GitCommit(chunks[i])]

\* __init__ that runs git log before it validates.
InitQueriesLogFirst(start_commit, resolves, tracked, log) ==
    <<Query("fileHistory", start_commit, log),
      Query("resolveRevision", start_commit, resolves)>>
    \o (IF resolves THEN <<Query("isTracked", <<>>, tracked)>> ELSE <<>>)

\* The external calls __init__ makes, in order, for the answers given:
\* verify_revision, then verify_file, then git log.
InitQueries(start_commit, resolves, tracked, log) ==
    <<Query("resolveRevision", start_commit, resolves)>>
    \o (IF resolves THEN <<Query("isTracked", <<>>, tracked)>> ELSE <<>>)
    \o (IF resolves /\ tracked THEN <<Query("fileHistory", start_commit, log)>> ELSE <<>>)

\* The two ValueErrors of __init__, told apart by their message.
InvalidRevision == "ValueError: not a valid commit"
UntrackedFile == "ValueError: not tracked by git"

\* The exception __init__ raises, NoExc if none. The two ValueErrors are
\* told apart by their message.
InitExc(resolves, tracked, log) ==
    IF ~resolves THEN InvalidRevision
    ELSE IF ~tracked THEN UntrackedFile
    ELSE IF ~ChunksOk(CommitChunks(log)) THEN "TypeError"
    ELSE NoExc

Construct(start_commit, resolves, tracked, log) ==
    LET exc == InitExc(resolves, tracked, log)
        queries == InitQueries(start_commit, resolves, tracked, log)
    IN  /\ pc = "new"
        /\ op' = Call("__init__", <<start_commit>>, <<>>, exc, queries)
        /\ IF exc = NoExc
           THEN /\ pc' = "ready"
                /\ commits' = ParseLog(log)
                /\ _index' = 0
                /\ _blame' = NoBlame
                /\ _line_mappings' = <<>>
                /\ UNCHANGED <<files, blame_index, returned, computed, trail, threads>>
           ELSE /\ pc' = "failed"
                /\ UNCHANGED <<commits, _index, _blame, _line_mappings, files, blame_index, returned, computed, trail, threads>>

-----------------------------------------------------------------------------
(* The trail of the cursor *)

\* The cursor at a position, where blame() has not returned yet.
At(index) == [index |-> index, blamed |-> FALSE]

\* The trail after a step to position `to`: its last two entries and the
\* new position. An empty trail stays empty.
TrailMoved(to) ==
    IF trail = <<>> THEN trail
    ELSE IF Len(trail) < 3 THEN Append(trail, At(to))
    ELSE <<trail[2], trail[3], At(to)>>

\* The trail after blame() has returned a result at the current position.
TrailBlamed ==
    IF trail = <<>> THEN trail
    ELSE [trail EXCEPT ![Len(trail)].blamed = TRUE]

\* No thread is inside a call.
NoThreads ==
    [blame_pc |-> "idle", lines |-> <<>>, read_index |-> None, query |-> <<>>,
     step_pc |-> "idle", step_name |-> "none", step_from |-> None,
     interleaved |-> FALSE]

-----------------------------------------------------------------------------
(* GitFileHistory.next and GitFileHistory.prev *)

\* A guard that lets next() step below position 0.
NextMovesBelowZero == ~(_index < 0)

NextMoves == ~(_index <= 0)

\* next() that keeps the cached blame when it moves.
nextKeepsBlame ==
    /\ pc = "ready"
    /\ IF NextMoves
       THEN /\ _index' = _index - 1
            /\ trail' = TrailMoved(_index - 1)
            /\ returned' = NoBlame
            /\ op' = Call("next", <<_index>>, TRUE, NoExc, <<>>)
            /\ UNCHANGED _blame
       ELSE /\ UNCHANGED <<_index, _blame, returned, trail>>
            /\ op' = Call("next", <<_index>>, FALSE, NoExc, <<>>)
    /\ UNCHANGED <<pc, commits, _line_mappings, files, blame_index, computed, threads>>

next ==
    /\ pc = "ready"
    /\ IF NextMoves
       THEN /\ _index' = _index - 1
            /\ trail' = TrailMoved(_index - 1)
            /\ _blame' = NoBlame
            /\ returned' = NoBlame
            /\ op' = Call("next", <<_index>>, TRUE, NoExc, <<>>)
       ELSE /\ UNCHANGED <<_index, _blame, returned, trail>>
            /\ op' = Call("next", <<_index>>, FALSE, NoExc, <<>>)
    /\ UNCHANGED <<pc, commits, _line_mappings, files, blame_index, computed, threads>>

\* A guard that lets prev() step past the last commit.
PrevMovesPastEnd == ~(_index >= Len(commits))

PrevMoves == ~(_index >= Len(commits) - 1)

\* prev() that drops the cached blame also when it does not move.
prevAlwaysClears ==
    /\ pc = "ready"
    /\ IF PrevMoves
       THEN /\ _index' = _index + 1
            /\ trail' = TrailMoved(_index + 1)
            /\ _blame' = NoBlame
            /\ returned' = NoBlame
            /\ op' = Call("prev", <<_index>>, TRUE, NoExc, <<>>)
       ELSE /\ _blame' = NoBlame
            /\ UNCHANGED <<_index, returned, trail>>
            /\ op' = Call("prev", <<_index>>, FALSE, NoExc, <<>>)
    /\ UNCHANGED <<pc, commits, _line_mappings, files, blame_index, computed, threads>>

\* prev() that reports a move it makes as no move.
prevReturnsFalse ==
    /\ pc = "ready"
    /\ IF PrevMoves
       THEN /\ _index' = _index + 1
            /\ trail' = TrailMoved(_index + 1)
            /\ _blame' = NoBlame
            /\ returned' = NoBlame
            /\ op' = Call("prev", <<_index>>, FALSE, NoExc, <<>>)
       ELSE /\ UNCHANGED <<_index, _blame, returned, trail>>
            /\ op' = Call("prev", <<_index>>, FALSE, NoExc, <<>>)
    /\ UNCHANGED <<pc, commits, _line_mappings, files, blame_index, computed, threads>>

prev ==
    /\ pc = "ready"
    /\ IF PrevMoves
       THEN /\ _index' = _index + 1
            /\ trail' = TrailMoved(_index + 1)
            /\ _blame' = NoBlame
            /\ returned' = NoBlame
            /\ op' = Call("prev", <<_index>>, TRUE, NoExc, <<>>)
       ELSE /\ UNCHANGED <<_index, _blame, returned, trail>>
            /\ op' = Call("prev", <<_index>>, FALSE, NoExc, <<>>)
    /\ UNCHANGED <<pc, commits, _line_mappings, files, blame_index, computed, threads>>

-----------------------------------------------------------------------------
(* GitFileHistory.blame: the parsing loop *)

\* GitBlameLine(sha, line, current, original_line, final_line)
GitBlameLine(sha, line, current, original_line, final_line) ==
    [sha |-> sha, line |-> line, current |-> current,
     original_line |-> original_line, final_line |-> final_line]

\* A search that takes the line right after the header for the content.
ContentLineRightAfter(lines, i) == IF i <= Len(lines) THEN i ELSE 0

\* The position of the first line from position i on that starts with a
\* tab, 0 if there is none.
ContentLineFrom(lines, i) ==
    LET hits == {j \in i..Len(lines) : StartsWith(lines[j], <<TAB>>)}
    IN  IF hits = {} THEN 0 ELSE CHOOSE j \in hits : \A k \in hits : j <= k

\* The `while True` loop of blame() from the i-th line of the output on,
\* with the GitBlameLines collected so far. The result is
\*   "ok"         the loop reached the end of the output (header = ''),
\*   "ValueError" a header with fewer than three fields cannot be unpacked,
\*   "hang"       no line starting with a tab follows a header: at the end
\*                of the output readline() returns '' for ever and the inner
\*                `while not line.startswith('\t')` never ends.
RECURSIVE BlameLoop(_, _, _, _)
BlameLoop(lines, i, acc, current_sha) ==
    IF i > Len(lines) THEN [kind |-> "ok", lines |-> acc]
    ELSE LET fields == Split(lines[i], <<SP>>, -1)
             j == ContentLineFrom(lines, i + 1)
         IN  IF Len(fields) < 3 THEN [kind |-> "ValueError", lines |-> acc]
             ELSE IF j = 0 THEN [kind |-> "hang", lines |-> acc]
             ELSE BlameLoop(lines, j + 1,
                            Append(acc, GitBlameLine(fields[1], Tail(lines[j]),
                                                     fields[1] = current_sha,
                                                     fields[2], fields[3])),
                            current_sha)

ParseBlame(raw, current_sha) == BlameLoop(ReadLines(raw), 1, <<>>, current_sha)

-----------------------------------------------------------------------------
(* The external diff: its output for a sequence of runs *)

Digits == <<"0", "1", "2", "3", "4", "5", "6", "7", "8", "9">>

\* '%d' % n
RECURSIVE Decimal(_)
Decimal(n) ==
    IF n < 10 THEN <<Digits[n + 1]>>
    ELSE Decimal(n \div 10) \o <<Digits[(n % 10) + 1]>>

\* int(s) for a string of digits
RECURSIVE ToInt(_)
ToInt(s) ==
    IF s = <<>> THEN 0
    ELSE 10 * ToInt(SubSeq(s, 1, Len(s) - 1))
         + ((CHOOSE d \in 1..10 : Digits[d] = s[Len(s)]) - 1)

Run(typ, n) == [typ |-> typ, n |-> n]

\* What diff prints for one group under
\*   --old-group-format='o %dn\n' --new-group-format='n %dN\n'
\*   --unchanged-group-format='u %dN\n'
GroupFormat(run) == <<run.typ, SP>> \o Decimal(run.n) \o <<NL>>

DiffOutput(runs) == Concat([i \in 1..Len(runs) |-> GroupFormat(runs[i])])

-----------------------------------------------------------------------------
(* GitFileHistory._build_line_mappings *)

Whitespace == {NL, SP, TAB}

\* s.strip()
RECURSIVE Strip(_)
Strip(s) ==
    IF s = <<>> THEN s
    ELSE IF s[1] \in Whitespace THEN Strip(Tail(s))
    ELSE IF s[Len(s)] \in Whitespace THEN Strip(SubSeq(s, 1, Len(s) - 1))
    ELSE s

\* diff_lines = [] if out == '' else out.strip().split('\n')
DiffLines(out) == IF out = <<>> THEN <<>> ELSE Split(Strip(out), <<NL>>, -1)

\* dict[k] = v
Put(dict, k, v) == [x \in DOMAIN dict \cup {k} |-> IF x = k THEN v ELSE dict[x]]

\* An iteration that records nothing for a deleted line.
RunStepSkipsDeleted(st, typ) ==
    IF typ = <<"u">>
    THEN [forward |-> Put(st.forward, st.start_ln, st.finish_ln),
          backward |-> Put(st.backward, st.finish_ln, st.start_ln),
          start_ln |-> st.start_ln + 1,
          finish_ln |-> st.finish_ln + 1]
    ELSE IF typ = <<"o">>
    THEN [st EXCEPT !.start_ln = st.start_ln + 1]
    ELSE IF typ = <<"n">>
    THEN [st EXCEPT !.backward = Put(st.backward, st.finish_ln, None),
                    !.finish_ln = st.finish_ln + 1]
    ELSE st

\* An iteration that advances the start side too for an added line.
RunStepNewAdvancesBoth(st, typ) ==
    IF typ = <<"u">>
    THEN [forward |-> Put(st.forward, st.start_ln, st.finish_ln),
          backward |-> Put(st.backward, st.finish_ln, st.start_ln),
          start_ln |-> st.start_ln + 1,
          finish_ln |-> st.finish_ln + 1]
    ELSE IF typ = <<"o">>
    THEN [st EXCEPT !.forward = Put(st.forward, st.start_ln, None),
                    !.start_ln = st.start_ln + 1]
    ELSE IF typ = <<"n">>
    THEN [st EXCEPT !.backward = Put(st.backward, st.finish_ln, None),
                    !.start_ln = st.start_ln + 1,
                    !.finish_ln = st.finish_ln + 1]
    ELSE st

\* The body of one `for i in range(num_lines)` iteration for a line of
\* type typ; a type other than u, o, n changes nothing.
RunStep(st, typ) ==
    IF typ = <<"u">>
    THEN [forward |-> Put(st.forward, st.start_ln, st.finish_ln),
          backward |-> Put(st.backward, st.finish_ln, st.start_ln),
          start_ln |-> st.start_ln + 1,
          finish_ln |-> st.finish_ln + 1]
    ELSE IF typ = <<"o">>
    THEN [st EXCEPT !.forward = Put(st.forward, st.start_ln, None),
                    !.start_ln = st.start_ln + 1]
    ELSE IF typ = <<"n">>
    THEN [st EXCEPT !.backward = Put(st.backward, st.finish_ln, None),
                    !.finish_ln = st.finish_ln + 1]
    ELSE st

RECURSIVE RunLoop(_, _, _)
RunLoop(st, typ, num_lines) ==
    IF num_lines <= 0 THEN st ELSE RunLoop(RunStep(st, typ), typ, num_lines - 1)

\* for line in diff_lines: typ, num_lines_str = line.split(' '); ...
RECURSIVE DiffLoop(_, _)
DiffLoop(st, diff_lines) ==
    IF diff_lines = <<>> THEN st
    ELSE LET parts == Split(Head(diff_lines), <<SP>>, -1)
         IN  DiffLoop(RunLoop(st, parts[1], ToInt(parts[2])), Tail(diff_lines))

\* A loop that stops at the last line instead of the position after it.
StretchGuardStrict(st, start_len, finish_len) ==
    st.start_ln < start_len /\ st.finish_ln < finish_len

\* while start_ln <= start_len and finish_ln <= finish_len: ...
StretchGuard(st, start_len, finish_len) ==
    st.start_ln <= start_len /\ st.finish_ln <= finish_len

RECURSIVE Stretch(_, _, _)
Stretch(st, start_len, finish_len) ==
    IF StretchGuard(st, start_len, finish_len)
    THEN Stretch(RunStep(st, <<"u">>), start_len, finish_len)
    ELSE st

\* out: the output of diff; start_len, finish_len: len(p.readlines()) of
\* `git show start:path` and `git show finish:path`.
_build_line_mappings(out, start_len, finish_len) ==
    LET st0 == [forward |-> <<>>, backward |-> <<>>, start_ln |-> 0, finish_ln |-> 0]
        st1 == DiffLoop(st0, DiffLines(out))
        st2 == Stretch(st1, start_len, finish_len)
    IN  [forward |-> st2.forward, backward |-> st2.backward]

-----------------------------------------------------------------------------
(* The environment: what git and diff may answer *)

\* Bounds of the model.
MaxCommits == 3
MaxLines == 1
MaxRuns == 1
MaxRunLen == 1

\* Revision identifiers; '/' is a legal character of a branch name.
Revisions == {<<"a">>, <<"a", SLASH, "a">>}

\* What git log prints for one commit under --pretty='%H%n%an%n%s%n':
\* the three fields, each followed by a newline, and the newline that
\* ends the entry.
LogEntry(sha, author, subject) ==
    sha \o <<NL>> \o author \o <<NL>> \o subject \o <<NL>> \o <<NL>>

\* The log of a file that k commits touched, newest first: shas 1..k.
RECURSIVE Log(_, _)
Log(from, k) ==
    IF from > k THEN <<>>
    ELSE LogEntry(Decimal(from), <<"a">>, <<"m">>) \o Log(from + 1, k)

CommitShas == {Decimal(k) : k \in 1..MaxCommits}

\* A file that is tracked and has no commit yet (k = 0), histories of
\* 1..MaxCommits commits, and a commit with an empty subject.
LogOutputs ==
    {Log(1, k) : k \in 0..MaxCommits} \cup {LogEntry(<<"1">>, <<"a">>, <<>>)}

\* One line of `git blame -p`: the header (with the group's line count
\* when count > 0), metadata lines, and the tab-marked content line.
BlameEntry(sha, ln, count, meta, text) ==
    sha \o <<SP>> \o Decimal(ln) \o <<SP>> \o Decimal(ln)
    \o (IF count > 0 THEN <<SP>> \o Decimal(count) ELSE <<>>) \o <<NL>>
    \o meta \o <<TAB>> \o text \o <<NL>>

AuthorLine == <<"a", "u", "t", "h", "o", "r", SP, "a", NL>>

\* No output (an empty file, or git blame failed); a one-line file; a
\* two-line file whose lines come from two commits; a header that could not
\* be unpacked; output cut off after a header.
BlameOutputs ==
    { <<>>,
      BlameEntry(<<"1">>, 1, 1, AuthorLine, <<"x">>),
      BlameEntry(<<"2">>, 1, 2, AuthorLine, <<"x">>) \o BlameEntry(<<"2">>, 2, 0, <<>>, <<"y">>),
      BlameEntry(<<"1">>, 1, 1, AuthorLine, <<"x">>) \o BlameEntry(<<"2">>, 2, 1, AuthorLine, <<"y">>),
      <<"f", "a", "t", "a", "l", NL>>,
      <<"1", SP, "1", SP, "1", SP, "1", NL, "a", NL>> }

RunTypes == {"u", "o", "n"}

\* The sequences of at most maxRuns runs, each of 1..maxRunLen lines.
RunSeqs(maxRuns, maxRunLen) ==
    UNION {[1..m -> {Run(t, n) : t \in RunTypes, n \in 1..maxRunLen}] : m \in 0..maxRuns}

\* The number of lines the runs of the given types cover.
RECURSIVE Covered(_, _)
Covered(runs, types) ==
    IF runs = <<>> THEN 0
    ELSE (IF Head(runs).typ \in types THEN Head(runs).n ELSE 0) + Covered(Tail(runs), types)

\* The runs account for every line of both files, as the output of diff does.
Consistent(runs, start_len, finish_len) ==
    /\ Covered(runs, {"u", "o"}) = start_len
    /\ Covered(runs, {"u", "n"}) = finish_len

\* What diff may print for two files: groups that account for every line
\* of both, or nothing at all.
Reported(runs, start_len, finish_len) ==
    runs = <<>> \/ Consistent(runs, start_len, finish_len)

\* For every pair of file lengths up to maxLines, what diff may print of
\* the runs in runSeqs, as an explicit table.
DiffAnswers(runSeqs, maxLines) ==
    [x \in (0..maxLines) \X (0..maxLines) |->
        {r : r \in {runs \in runSeqs : Reported(runs, x[1], x[2])}}] @@ <<>>

\* Two reads of one revision give the same lines, for which diff reports
\* unchanged groups only.
OnlyUnchanged(runs) == \A i \in 1..Len(runs) : runs[i].typ = "u"

\* The runs diff may report in Spec.
DiffRuns == RunSeqs(MaxRuns, MaxRunLen)
SpecAnswers == DiffAnswers(DiffRuns, MaxLines)

\* What `git show rev:path` gives: the number of lines of the file, or no
\* output at all (available = FALSE) when the revision has no such file;
\* readlines() of no output is the empty list.
Content(available, n) == [available |-> available, lines |-> IF available THEN n ELSE 0]

Available(maxLines) == {Content(TRUE, n) : n \in 0..maxLines}
Contents(maxLines) == Available(maxLines) \cup {Content(FALSE, 0)}

-----------------------------------------------------------------------------
(* GitFileHistory.blame *)

\* ParseBlame over the outputs and shas of the environment, as an explicit
\* table: TLC evaluates it once instead of once per state.
BlameTable ==
    [x \in BlameOutputs \X CommitShas |-> ParseBlame(x[1], x[2])] @@ <<>>

BlameResult(raw, current_sha) ==
    IF <<raw, current_sha>> \in DOMAIN BlameTable
    THEN BlameTable[<<raw, current_sha>>]
    ELSE ParseBlame(raw, current_sha)

\* `if self._blame: return self._blame`
BlameCached == Truthy(_blame)

\* self.current_commit raises IndexError when commits is empty.
HasCurrent == _index < Len(commits)
current_commit == commits[_index + 1]

\* What blame() assigns to self._blame at its end.
BlameStored(lines) == Some(lines)

\* raw: what `git blame -p path sha` prints, if it is run.
blame(raw) ==
    /\ pc = "ready"
    /\ UNCHANGED <<commits, _index, _line_mappings, files, computed, threads>>
    /\ IF BlameCached
       THEN /\ op' = Call("blame", <<_index>>, _blame[1], NoExc, <<>>)
            /\ returned' = Some(_blame[1])
            /\ trail' = TrailBlamed
            /\ UNCHANGED <<pc, _blame, blame_index>>
       ELSE IF ~HasCurrent
       THEN /\ op' = Call("blame", <<_index>>, <<>>, "IndexError", <<>>)
            /\ UNCHANGED <<pc, _blame, blame_index, returned, trail>>
       ELSE LET sha == current_commit.sha
                res == BlameResult(raw, sha)
                queries == <<Query("blameAt", sha, raw)>>
            IN  CASE res.kind = "ok" ->
                       /\ _blame' = BlameStored(res.lines)
                       /\ blame_index' = _index
                       /\ returned' = Some(res.lines)
                       /\ trail' = TrailBlamed
                       /\ op' = Call("blame", <<_index>>, res.lines, NoExc, queries)
                       /\ UNCHANGED pc
                  [] res.kind = "ValueError" ->
                       /\ op' = Call("blame", <<_index>>, <<>>, "ValueError", queries)
                       /\ UNCHANGED <<pc, _blame, blame_index, returned, trail>>
                  [] res.kind = "hang" ->
                       /\ pc' = "hung"
                       /\ op' = Call("blame", <<_index>>, <<>>, "hang", queries)
                       /\ UNCHANGED <<_blame, blame_index, returned, trail>>

-----------------------------------------------------------------------------
(* GitFileHistory.line_mapping *)

\* start + '/' + finish
Key(start, finish) == start \o <<SLASH>> \o finish

\* The external calls of _build_line_mappings, in order.
BuildQueries(start, finish, cs, cf, runs) ==
    <<Query("contentAt", start, cs), Query("contentAt", finish, cf),
      Query("groupedDiff", <<start, finish>>, runs),
      Query("contentAt", start, cs), Query("contentAt", finish, cf)>>

\* self._line_mappings after the two assignments of line_mapping.
StoreMappings(start, finish, built) ==
    Put(Put(_line_mappings, Key(start, finish), built.forward),
        Key(finish, start), built.backward)

\* _build_line_mappings on the output of diff for the runs; over the runs
\* and contents of Spec as an explicit table, which TLC evaluates once.
BuiltTable ==
    [x \in DiffRuns \X (0..MaxLines) \X (0..MaxLines) |->
        _build_line_mappings(DiffOutput(x[1]), x[2], x[3])] @@ <<>>

Built(runs, start_len, finish_len) ==
    IF <<runs, start_len, finish_len>> \in DOMAIN BuiltTable
    THEN BuiltTable[<<runs, start_len, finish_len>>]
    ELSE _build_line_mappings(DiffOutput(runs), start_len, finish_len)

\* runs: the groups diff reports for the contents at start and at finish,
\* read only if the key is not cached.
line_mapping(start, finish, runs) ==
    /\ pc = "ready"
    /\ UNCHANGED <<pc, commits, _index, _blame, files, blame_index, returned, trail, threads>>
    /\ IF Key(start, finish) \in DOMAIN _line_mappings
       THEN /\ op' = Call("line_mapping", <<start, finish>>,
                          _line_mappings[Key(start, finish)], NoExc, <<>>)
            /\ UNCHANGED <<_line_mappings, computed>>
       ELSE LET cs == files[start]
                cf == files[finish]
                built == Built(runs, cs.lines, cf.lines)
            IN  /\ _line_mappings' = StoreMappings(start, finish, built)
                /\ computed' = IF <<start, finish>> \in DOMAIN computed
                               THEN computed
                               ELSE Put(computed, <<start, finish>>, built)
                /\ op' = Call("line_mapping", <<start, finish>>, built.forward, NoExc,
                              BuildQueries(start, finish, cs, cf, runs))

-----------------------------------------------------------------------------
(* The specification: any sequence of calls on one engine, over a          *)
(* repository that has the file at every revision                          *)

NoCall == Call("none", <<>>, <<>>, NoExc, <<>>)

NotConstructed ==
    /\ pc = "new"
    /\ commits = <<>>
    /\ _index = 0
    /\ _blame = NoBlame
    /\ _line_mappings = <<>>
    /\ blame_index = None
    /\ returned = NoBlame
    /\ computed = <<>>
    /\ trail = <<>>
    /\ threads = NoThreads
    /\ op = NoCall

Init ==
    /\ NotConstructed
    /\ files \in [Revisions -> Available(MaxLines)]

DoConstruct ==
    \E start_commit \in Revisions, resolves \in BOOLEAN, tracked \in BOOLEAN, log \in LogOutputs :
        Construct(start_commit, resolves, tracked, log)

\* git blame is run, and its output read, only when nothing is cached.
DoBlame ==
    IF BlameCached
    THEN blame(<<>>)
    ELSE \E raw \in BlameOutputs : blame(raw)

\* diff is run, and its output read, only when the key is not cached.
DoLineMapping ==
    \E start \in Revisions, finish \in Revisions :
        IF Key(start, finish) \in DOMAIN _line_mappings
        THEN line_mapping(start, finish, <<>>)
        ELSE \E runs \in SpecAnswers[<<files[start].lines, files[finish].lines>>] :
                /\ start = finish => OnlyUnchanged(runs)
                /\ line_mapping(start, finish, runs)

Next == DoConstruct \/ next \/ prev \/ DoBlame \/ DoLineMapping

Spec == Init /\ [][Next]_vars

-----------------------------------------------------------------------------
(* The first line_mapping call on a fresh engine, for any contents,        *)
(* present or not                                                          *)

BuildMaxLines == 3
BuildMaxRuns == 3
BuildMaxRunLen == 3

InitBuild ==
    /\ pc = "ready"
    /\ commits = ParseLog(Log(1, 1))
    /\ _index = 0
    /\ _blame = NoBlame
    /\ _line_mappings = <<>>
    /\ blame_index = None
    /\ returned = NoBlame
    /\ computed = <<>>
    /\ trail = <<>>
    /\ threads = NoThreads
    /\ op = NoCall
    /\ files \in [Revisions -> Contents(BuildMaxLines)]

BuildRuns == RunSeqs(BuildMaxRuns, BuildMaxRunLen)
BuildAnswers == DiffAnswers(BuildRuns, BuildMaxLines)

DoBuild ==
    /\ _line_mappings = <<>>
    /\ \E start \in Revisions, finish \in Revisions :
        \E runs \in BuildAnswers[<<files[start].lines, files[finish].lines>>] :
            /\ start = finish => OnlyUnchanged(runs)
            /\ line_mapping(start, finish, runs)

NextBuild == DoBuild

SpecBuild == InitBuild /\ [][NextBuild]_vars

-----------------------------------------------------------------------------
(* blame on the well-formed outputs of git blame -p, on an engine of two   *)
(* commits                                                                 *)

ParseMaxEntries == 2

\* The line git blame -p prints first for a line of the file: the sha, the
\* line's number in the commit it comes from, its number in the blamed
\* revision and, for the first line of a group, the size of the group.
BlameHeader(e) ==
    e.sha \o <<SP>> \o Decimal(e.orig) \o <<SP>> \o Decimal(e.final)
    \o (IF e.count > 0 THEN <<SP>> \o Decimal(e.count) ELSE <<>>) \o <<NL>>

\* All that git blame -p prints for the lines of a file: for each the
\* header, the metadata lines and the content behind a tab.
RECURSIVE BlameText(_)
BlameText(entries) ==
    IF entries = <<>> THEN <<>>
    ELSE BlameHeader(Head(entries)) \o Head(entries).meta
         \o <<TAB>> \o Head(entries).text \o <<NL>> \o BlameText(Tail(entries))

SummaryLine == <<"s", "u", "m", "m", "a", "r", "y", SP, "m", NL>>

\* The k-th line of a file as git blame may report it: from either commit,
\* where it was the line k + 1, as the first line of a group with the
\* commit's metadata, or without, or as a later line of a group; the line
\* empty or with a space and a tab in it.
ParseEntries(k) ==
    {[sha |-> sha, orig |-> k + 1, final |-> k, count |-> form[1], meta |-> form[2], text |-> text] :
        sha \in {<<"1">>, <<"2">>},
        form \in {<<1, AuthorLine \o SummaryLine>>, <<1, <<>> >>, <<0, <<>> >>},
        text \in {<<>>, <<"x", SP, TAB, "y">>}}

\* The files of n lines.
RECURSIVE ParseFiles(_)
ParseFiles(n) ==
    IF n = 0 THEN {<<>>}
    ELSE {Append(f, e) : f \in ParseFiles(n - 1), e \in ParseEntries(n)}

ParseInputs == UNION {ParseFiles(n) : n \in 0..ParseMaxEntries}

ParseRaws == {BlameText(entries) : entries \in ParseInputs}

InitParse ==
    /\ pc = "ready"
    /\ commits = ParseLog(Log(1, 2))
    /\ _index = 0
    /\ _blame = NoBlame
    /\ _line_mappings = <<>>
    /\ blame_index = None
    /\ returned = NoBlame
    /\ computed = <<>>
    /\ trail = <<>>
    /\ threads = NoThreads
    /\ op = NoCall
    /\ files = [r \in Revisions |-> Content(TRUE, 0)]

DoParse ==
    IF BlameCached
    THEN blame(<<>>)
    ELSE \E raw \in ParseRaws : blame(raw)

NextParse == next \/ prev \/ DoParse

SpecParse == InitParse /\ [][NextParse]_vars

-----------------------------------------------------------------------------
(* Steps and blame on an engine of MaxCommits commits, with the trail of   *)
(* the cursor                                                              *)

InitTrip ==
    /\ pc = "ready"
    /\ commits = ParseLog(Log(1, MaxCommits))
    /\ _index = 0
    /\ _blame = NoBlame
    /\ _line_mappings = <<>>
    /\ blame_index = None
    /\ returned = NoBlame
    /\ computed = <<>>
    /\ trail = <<At(0)>>
    /\ threads = NoThreads
    /\ op = NoCall
    /\ files = [r \in Revisions |-> Content(TRUE, 0)]

NextTrip == next \/ prev \/ DoBlame

SpecTrip == InitTrip /\ [][NextTrip]_vars

-----------------------------------------------------------------------------
(* Two threads of a host application on one engine, with no lock: one      *)
(* calls blame(), the other next() and prev(). A thread may be suspended   *)
(* between any two accesses to a field of the engine.                      *)

\* blame(), line 95: `if self._blame:` reads the cache.
BlameCheck ==
    /\ pc = "ready"
    /\ threads.blame_pc = "idle"
    /\ threads' = [threads EXCEPT
                      !.blame_pc = IF BlameCached THEN "hit" ELSE "miss",
                      !.interleaved = @ \/ threads.step_pc # "idle"]
    /\ UNCHANGED <<pc, commits, _index, _blame, _line_mappings, files,
                   blame_index, returned, computed, trail, op>>

\* What `return self._blame` returns: the field as it is read then.
BlameReturned == IF _blame = NoBlame THEN None ELSE _blame[1]

\* The locals of the blame thread after its call has ended.
BlameDone == [threads EXCEPT !.blame_pc = "idle", !.lines = <<>>,
                             !.read_index = None, !.query = <<>>]

\* blame(), line 96: `return self._blame` reads the cache once more.
BlameServe ==
    /\ threads.blame_pc = "hit"
    /\ op' = Call("blame", <<_index>>, BlameReturned, NoExc, <<>>)
    /\ returned' = IF _blame = NoBlame THEN returned ELSE Some(_blame[1])
    /\ threads' = BlameDone
    /\ UNCHANGED <<pc, commits, _index, _blame, _line_mappings, files,
                   blame_index, computed, trail>>

\* blame(), lines 98-126: self.current_commit reads _index and commits,
\* git blame runs for that sha and the loop fills the local `lines`.
BlameQuery(raw) ==
    /\ threads.blame_pc = "miss"
    /\ UNCHANGED <<pc, commits, _index, _blame, _line_mappings, files,
                   blame_index, returned, computed, trail>>
    /\ IF ~HasCurrent
       THEN /\ op' = Call("blame", <<_index>>, <<>>, "IndexError", <<>>)
            /\ threads' = BlameDone
       ELSE LET sha == current_commit.sha
                res == BlameResult(raw, sha)
                queries == <<Query("blameAt", sha, raw)>>
            IN  CASE res.kind = "ok" ->
                       /\ threads' = [threads EXCEPT !.blame_pc = "parsed",
                                                     !.lines = res.lines,
                                                     !.read_index = _index,
                                                     !.query = queries]
                       /\ UNCHANGED op
                  [] res.kind = "ValueError" ->
                       /\ op' = Call("blame", <<_index>>, <<>>, "ValueError", queries)
                       /\ threads' = BlameDone
                  [] res.kind = "hang" ->
                       /\ op' = Call("blame", <<_index>>, <<>>, "hang", queries)
                       /\ threads' = [threads EXCEPT !.blame_pc = "hung"]

\* blame(), line 128: `self._blame = lines`.
BlameStore ==
    /\ threads.blame_pc = "parsed"
    /\ _blame' = BlameStored(threads.lines)
    /\ blame_index' = threads.read_index
    /\ threads' = [threads EXCEPT !.blame_pc = "stored"]
    /\ UNCHANGED <<pc, commits, _index, _line_mappings, files, returned,
                   computed, trail, op>>

\* blame(), line 129: `return self._blame`.
BlameReturn ==
    /\ threads.blame_pc = "stored"
    /\ op' = Call("blame", <<threads.read_index>>, BlameReturned, NoExc, threads.query)
    /\ returned' = IF _blame = NoBlame THEN returned ELSE Some(_blame[1])
    /\ threads' = BlameDone
    /\ UNCHANGED <<pc, commits, _index, _blame, _line_mappings, files,
                   blame_index, computed, trail>>

\* next() or prev(), lines 71-73 and 83-85: the test and, when it lets the
\* cursor move, the assignment of _index. No other thread assigns _index,
\* so the test and the assignment are one step.
StepMove(name) ==
    /\ pc = "ready"
    /\ threads.step_pc = "idle"
    /\ UNCHANGED <<pc, commits, _blame, _line_mappings, files, blame_index,
                   returned, computed, trail>>
    /\ IF (IF name = "next" THEN NextMoves ELSE PrevMoves)
       THEN /\ _index' = IF name = "next" THEN _index - 1 ELSE _index + 1
            /\ threads' = [threads EXCEPT
                              !.step_pc = "moved", !.step_name = name,
                              !.step_from = _index,
                              !.interleaved = @ \/ threads.blame_pc # "idle"]
            /\ UNCHANGED op
       ELSE /\ op' = Call(name, <<_index>>, FALSE, NoExc, <<>>)
            /\ threads' = [threads EXCEPT
                              !.interleaved = @ \/ threads.blame_pc # "idle"]
            /\ UNCHANGED _index

\* A step that leaves the cached blame in place.
StepClearKeepsBlame ==
    /\ threads.step_pc = "moved"
    /\ returned' = NoBlame
    /\ op' = Call(threads.step_name, <<threads.step_from>>, TRUE, NoExc, <<>>)
    /\ threads' = [threads EXCEPT !.step_pc = "idle", !.step_name = "none",
                                  !.step_from = None]
    /\ UNCHANGED <<pc, commits, _index, _blame, _line_mappings, files, blame_index,
                   computed, trail>>

\* next() or prev(), lines 74-76 and 86-88: `self._blame = None` and
\* `return True`.
StepClear ==
    /\ threads.step_pc = "moved"
    /\ _blame' = NoBlame
    /\ returned' = NoBlame
    /\ op' = Call(threads.step_name, <<threads.step_from>>, TRUE, NoExc, <<>>)
    /\ threads' = [threads EXCEPT !.step_pc = "idle", !.step_name = "none",
                                  !.step_from = None]
    /\ UNCHANGED <<pc, commits, _index, _line_mappings, files, blame_index,
                   computed, trail>>

InitThreads ==
    /\ pc = "ready"
    /\ commits = ParseLog(Log(1, MaxCommits))
    /\ _index = 0
    /\ _blame = NoBlame
    /\ _line_mappings = <<>>
    /\ blame_index = None
    /\ returned = NoBlame
    /\ computed = <<>>
    /\ trail = <<>>
    /\ threads = NoThreads
    /\ op = NoCall
    /\ files = [r \in Revisions |-> Content(TRUE, 0)]

DoBlameQuery == \E raw \in BlameOutputs : BlameQuery(raw)

NextThreads ==
    \/ BlameCheck \/ BlameServe \/ DoBlameQuery \/ BlameStore \/ BlameReturn
    \/ StepMove("next") \/ StepMove("prev") \/ StepClear

SpecThreads == InitThreads /\ [][NextThreads]_vars

-----------------------------------------------------------------------------
(* The cursor *)

\* C1: on a non-empty history the cursor position is always an index of
\* the commit sequence, 0 <= _index <= len(commits) - 1, whatever next()
\* and prev() calls were made.
C1_CursorInBounds ==
    (pc = "ready" /\ Len(commits) > 0) => (0 <= _index /\ _index <= Len(commits) - 1)

\* prev() refused to move at the last index of the longest history, which
\* it reached by moving there from position 0.
C1_Witness ==
    /\ pc = "ready"
    /\ Len(commits) = MaxCommits
    /\ _index = MaxCommits - 1
    /\ op.name = "prev" /\ op.ret = FALSE

\* C2: next() at position 0 returns False and leaves the position as it
\* is; at a position p > 0 it sets the position to p - 1 and returns True.
C2_StepForward ==
    [][op'.name = "next" =>
          /\ _index = 0 => (_index' = _index /\ op'.ret = FALSE)
          /\ _index > 0 => (_index' = _index - 1 /\ op'.ret = TRUE)]_vars

\* next() returned False at position 0 after an earlier next() had moved
\* the cursor there from position 1, where blame() had been called.
C2_Witness ==
    /\ op.name = "next" /\ op.ret = FALSE
    /\ _index = 0
    /\ blame_index = 1

\* C3: prev() at the last index len(commits) - 1 returns False and leaves
\* the position as it is; at a position p < len(commits) - 1 it sets the
\* position to p + 1 and returns True.
C3_StepBackward ==
    [][op'.name = "prev" =>
          /\ _index = Len(commits) - 1 => (_index' = _index /\ op'.ret = FALSE)
          /\ _index < Len(commits) - 1 => (_index' = _index + 1 /\ op'.ret = TRUE)]_vars

\* prev() moved the cursor from position 1 to the last index 2.
C3_Witness ==
    /\ op.name = "prev" /\ op.ret = TRUE /\ op.args = <<1>>
    /\ Len(commits) = 3
    /\ _index = 2

\* C4: whenever __init__ succeeds, the commit sequence is not empty, so
\* that current_commit denotes a commit.
C4_HistoryNonEmpty == pc = "ready" => Len(commits) > 0

\* C5: __init__ validates before it queries. A revision that does not
\* resolve raises InvalidRevision; a resolved revision with an untracked
\* path raises UntrackedFile; in both cases git log is not run and no
\* engine exists. git log runs only after both checks passed.
C5_ValidateBeforeQuery ==
    op.name = "__init__" =>
        LET q == op.queries
            history == QueriesNamed(q, "fileHistory")
        IN  /\ q[1].q = "resolveRevision"
            /\ ~q[1].answer =>
                 /\ op.exc = InvalidRevision
                 /\ history = <<>>
                 /\ pc = "failed" /\ commits = <<>>
            /\ q[1].answer =>
                 /\ Len(q) >= 2 /\ q[2].q = "isTracked"
                 /\ ~q[2].answer =>
                      /\ op.exc = UntrackedFile
                      /\ history = <<>>
                      /\ pc = "failed" /\ commits = <<>>
                 /\ q[2].answer => (Len(q) = 3 /\ q[3].q = "fileHistory")

\* __init__ failed for a path that is not tracked, at a revision that
\* resolves.
C5_Witness ==
    /\ op.name = "__init__"
    /\ op.exc = UntrackedFile
    /\ Len(op.queries) = 2

-----------------------------------------------------------------------------
(* The blame cache *)

\* C6: at a fixed cursor position, once blame() has returned a result,
\* every later blame() call before the next successful step returns that
\* same result and runs git blame no more, whatever the result is, the
\* empty list included.
C6_RepeatedBlameIsCached ==
    [][(returned # NoBlame /\ op'.name = "blame") =>
          /\ op'.exc = NoExc
          /\ op'.ret = returned[1]
          /\ op'.queries = <<>>]_vars

\* The same for a result of at least one line, which is what the code
\* does: `if self._blame:` takes the empty list for no cached result.
NonEmptyBlameIsCached ==
    [][(returned # NoBlame /\ returned[1] # <<>> /\ op'.name = "blame") =>
          /\ op'.exc = NoExc
          /\ op'.ret = returned[1]
          /\ op'.queries = <<>>]_vars

\* C7: a blame() call that returns, returns the blame of the commit at the
\* current position of the cursor: either it runs git blame for the sha
\* of that commit and returns what it parsed from the output, or it
\* returns a cached result that was computed at this very position.
C7_BlameOfCurrentPosition ==
    [][(op'.name = "blame" /\ op'.exc = NoExc) =>
          \/ /\ op'.queries = <<>>
             /\ blame_index = _index
             /\ op'.ret = _blame[1]
          \/ /\ Len(op'.queries) = 1
             /\ op'.queries[1].q = "blameAt"
             /\ op'.queries[1].arg = commits[_index + 1].sha
             /\ op'.ret = ParseBlame(op'.queries[1].answer, commits[_index + 1].sha).lines]_vars

\* blame() served a cached two-line result at position 1, whose lines
\* belong to the commit at that position.
C7_Witness ==
    /\ op.name = "blame" /\ op.exc = NoExc
    /\ op.queries = <<>>
    /\ _index = 1
    /\ Len(op.ret) = 2
    /\ op.ret[1].current

-----------------------------------------------------------------------------
(* The line-mapping cache *)

\* f and b map each other's lines back: f[i] = j for a line j iff b[j] = i.
Inverse(f, b) ==
    /\ \A i \in DOMAIN f : f[i] # None => (f[i] \in DOMAIN b /\ b[f[i]] = i)
    /\ \A j \in DOMAIN b : b[j] # None => (b[j] \in DOMAIN f /\ f[b[j]] = j)

\* C8: line_mapping(A, B) and line_mapping(B, A) are inverses on their
\* entries that are not None, whichever is called first: a call for (A, B)
\* and the call for (B, A) that follows it return tables f, b with
\* f[i] = j iff b[j] = i.
C8_MappingsAreInverses ==
    [][(op.name = "line_mapping" /\ op'.name = "line_mapping"
        /\ op'.args = <<op.args[2], op.args[1]>>) =>
          Inverse(op.ret, op'.ret)]_vars

\* C9: once line_mapping(A, B) has computed its tables, every later call
\* for (A, B) returns the forward table and every later call for (B, A)
\* the backward table of that computation, and runs neither git show nor
\* diff, whatever calls were made in between.
C9_MappingComputedOnce ==
    [][op'.name = "line_mapping" =>
          LET pair == op'.args
              rev == <<pair[2], pair[1]>>
          IN  /\ pair \in DOMAIN computed =>
                   (op'.queries = <<>> /\ op'.ret = computed[pair].forward)
              /\ (pair \notin DOMAIN computed /\ rev \in DOMAIN computed) =>
                   (op'.queries = <<>> /\ op'.ret = computed[rev].backward)]_vars

\* {0: 0, ..., n: n}
Identity(n) == [i \in 0..n |-> i]

\* C10: line_mapping(A, A) for a file of N lines, when diff reports one
\* unchanged run of N lines or no run at all, is the identity on 0..N:
\* key i maps to i, nothing maps to None, and there are no other keys.
C10_SelfMappingIsIdentity ==
    (op.name = "line_mapping" /\ op.args[1] = op.args[2] /\ op.queries # <<>>) =>
        LET content == op.queries[1].answer
            runs == op.queries[3].answer
        IN  (content.available /\ (runs = <<>> \/ runs = <<Run("u", content.lines)>>)) =>
                /\ op.ret = Identity(content.lines)
                /\ _line_mappings[Key(op.args[1], op.args[2])] = Identity(content.lines)

\* line_mapping(A, A) was computed for a file of 2 lines for which diff
\* printed nothing.
C10_Witness ==
    /\ op.name = "line_mapping" /\ op.args[1] = op.args[2]
    /\ op.queries # <<>>
    /\ op.queries[1].answer = Content(TRUE, 2)
    /\ op.queries[3].answer = <<>>

-----------------------------------------------------------------------------
(* The tables of _build_line_mappings *)

\* A line_mapping call that computed, for contents of the given numbers of
\* lines and the given groups of diff.
ComputedFor(start_len, finish_len, runs) ==
    /\ op.name = "line_mapping"
    /\ op.queries # <<>>
    /\ op.queries[1].answer = Content(TRUE, start_len)
    /\ op.queries[2].answer = Content(TRUE, finish_len)
    /\ op.queries[3].answer = runs

\* A line inserted between the two lines of start.
InsertedRuns == <<Run("u", 1), Run("n", 1), Run("u", 1)>>

\* The first of the two lines of start deleted.
DeletedRuns == <<Run("o", 1), Run("u", 1)>>

ContentMissing(call) ==
    /\ call.name = "line_mapping"
    /\ call.queries # <<>>
    /\ (~call.queries[1].answer.available \/ ~call.queries[2].answer.available)

\* C12: line_mapping(start, finish) raises ContentUnavailable whenever
\* `git show` gives no content for start or for finish; it then returns no
\* table, stores nothing in _line_mappings and leaves the cursor and the
\* cached blame as they were.
C12_ContentUnavailable ==
    [][ContentMissing(op') =>
          /\ op'.exc = "ContentUnavailable"
          /\ op'.ret = <<>>
          /\ _line_mappings' = _line_mappings
          /\ _index' = _index
          /\ _blame' = _blame]_vars

-----------------------------------------------------------------------------
(* Errors of blame, and the footprint of the steps *)

\* C13: blame() raises BlameUnavailable whenever git blame prints nothing
\* for the sha of the current commit and the path; it does not return the
\* empty list as a result, and the cursor stays where it is.
C13_BlameUnavailable ==
    [][(op'.name = "blame" /\ op'.queries # <<>> /\ op'.queries[1].answer = <<>>) =>
          /\ op'.exc = "BlameUnavailable"
          /\ _index' = _index]_vars

\* C14: next() and prev() never change commits or _line_mappings. A step
\* that returns True changes _index and sets _blame to None, and nothing
\* else; a step that returns False changes nothing, the cached blame
\* included.
C14_StepFootprint ==
    [][op'.name \in {"next", "prev"} =>
          /\ commits' = commits
          /\ _line_mappings' = _line_mappings
          /\ pc' = pc /\ files' = files
          /\ op'.ret = TRUE => (_index' # _index /\ _blame' = NoBlame)
          /\ op'.ret = FALSE => (_index' = _index /\ _blame' = _blame)]_vars

\* prev() returned False at the last index and left a cached blame and a
\* cached line mapping in place.
C14_Witness ==
    /\ op.name = "prev" /\ op.ret = FALSE
    /\ _blame # NoBlame /\ _blame[1] # <<>>
    /\ _line_mappings # <<>>
    /\ Len(commits) > 1

-----------------------------------------------------------------------------
(* The cache keys, and the end of the blame loop *)

\* C19: _line_mappings keeps the pairs of revisions apart, also for
\* revisions that contain '/': a call for (start, finish) returns the
\* forward table computed for (start, finish) or the backward table
\* computed for (finish, start); the keys of (start, finish) and of
\* (finish, start) differ when the revisions differ; and a call leaves
\* every entry that is already cached as it is.
C19_CacheKeepsPairsApart ==
    [][op'.name = "line_mapping" =>
          LET pair == op'.args
              rev == <<pair[2], pair[1]>>
          IN  /\ \/ pair \in DOMAIN computed' /\ op'.ret = computed'[pair].forward
                 \/ rev \in DOMAIN computed' /\ op'.ret = computed'[rev].backward
              /\ pair # rev => Key(pair[1], pair[2]) # Key(rev[1], rev[2])
              /\ \A k \in DOMAIN _line_mappings : _line_mappings'[k] = _line_mappings[k]]_vars

\* C20: blame() comes to an end on every output of git blame, also on one
\* that stops after a header or after metadata lines, with no content
\* line: the loop reaches the end of the output and the call returns.
C20_BlameTerminates == op.name = "blame" => (pc # "hung" /\ op.exc # "hang")

-----------------------------------------------------------------------------
(* The lines of blame *)

\* The GitBlameLine of an entry: the three fields of its header as they
\* stand between the spaces (the third one ends with the newline of the
\* header when no group size follows it), and the content line behind its
\* tab, newline included.
ExpectedLine(e, current_sha) ==
    [sha |-> e.sha,
     original_line |-> Decimal(e.orig),
     final_line |-> Decimal(e.final) \o (IF e.count > 0 THEN <<>> ELSE <<NL>>),
     line |-> e.text \o <<NL>>,
     current |-> (e.sha = current_sha)]

\* For every output and sha of SpecParse, the lines expected of blame().
ExpectedTable ==
    {<<BlameText(entries), sha,
       [k \in 1..Len(entries) |-> ExpectedLine(entries[k], sha)]>> :
        entries \in ParseInputs, sha \in {<<"1">>, <<"2">>}}

\* C17: blame() returns one GitBlameLine per content line of the output
\* of git blame, in the order of the output: sha, original_line and
\* final_line are the first three space-separated fields of the line's
\* header, the metadata lines before the content line are skipped, line
\* is the content line without its tab, and current tells whether the
\* header's sha is the sha of the current commit.
C17_BlameLinePerContentLine ==
    (op.name = "blame" /\ op.queries # <<>>) =>
        /\ op.exc = NoExc
        /\ <<op.queries[1].answer, op.queries[1].arg, op.ret>> \in ExpectedTable

\* blame() parsed two lines at the older commit: the first with metadata
\* and from that commit, the second a later line of a group from the other.
C17_Witness ==
    /\ op.name = "blame" /\ op.queries # <<>>
    /\ _index = 1
    /\ Len(op.ret) = 2
    /\ op.ret[1].current /\ ~op.ret[2].current
    /\ op.ret[1].line = <<"x", SP, TAB, "y", NL>>
    /\ op.ret[2].final_line = <<"2", NL>>
    /\ Len(op.queries[1].answer) > 40

-----------------------------------------------------------------------------
(* Round trips of the cursor *)

\* The last two steps led from a position to a neighbour and back.
RoundTrip == Len(trail) = 3 /\ trail[1].index = trail[3].index

\* C16: a prev() that moved from p, followed by next(), brings the cursor
\* back to p, and so does a next() that moved from p followed by prev();
\* the first blame() after such a round trip runs git blame for the
\* commit at p again and does not serve what was cached before.
C16_RoundTrip ==
    [][/\ (op.name = "prev" /\ op.ret = TRUE /\ op'.name = "next") =>
             (op'.ret = TRUE /\ _index' = op.args[1])
       /\ (op.name = "next" /\ op.ret = TRUE /\ op'.name = "prev") =>
             (op'.ret = TRUE /\ _index' = op.args[1])
       /\ (RoundTrip /\ ~trail[3].blamed /\ op'.name = "blame") =>
             /\ _index = trail[1].index
             /\ Len(op'.queries) = 1
             /\ op'.queries[1].q = "blameAt"
             /\ op'.queries[1].arg = commits[trail[1].index + 1].sha]_vars

\* On a history of 3 commits: blame() had returned at commit[0], prev()
\* moved to commit[1], next() moved back to commit[0], and blame() has
\* run git blame for commit[0] again.
C16_Witness ==
    /\ Len(commits) = 3
    /\ trail = <<[index |-> 0, blamed |-> TRUE], At(1), [index |-> 0, blamed |-> TRUE]>>
    /\ _index = 0
    /\ op.name = "blame" /\ op.exc = NoExc
    /\ op.queries # <<>>
    /\ op.queries[1].arg = commits[1].sha

-----------------------------------------------------------------------------
(* blame() and a step in two threads *)

\* No thread is inside a call.
Quiescent == threads.blame_pc = "idle" /\ threads.step_pc = "idle"

\* The cache holds the blame of a position other than the cursor's.
StaleBlame == BlameCached /\ blame_index # _index

\* C18: when blame() and a step run in two threads, there are
\* interleavings after which the cached blame belongs to another position
\* than the cursor's and later blame() calls serve it; such a state comes
\* about only if a call began while the other thread was inside a call:
\* with every call run from its beginning to its end alone, the cached
\* blame is always the one of the cursor's position.
C18_StaleBlameOnlyByInterleaving ==
    (Quiescent /\ StaleBlame) => threads.interleaved

\* blame() read the commit at position 0, prev() moved the cursor to
\* position 1 and cleared the cache, blame() stored its lines; a later
\* blame() at position 1 has served these lines of position 0.
C18_Witness ==
    /\ Quiescent /\ StaleBlame
    /\ blame_index = 0 /\ _index = 1
    /\ op.name = "blame" /\ op.args = <<1>>
    /\ op.queries = <<>>
    /\ op.ret = _blame[1]

====
